---------------------------- MODULE Spec2Model ----------------------------
(***************************************************************************)
(* StreamingJsonParser of streamyjson/_json_parse.py: a stack-based state   *)
(* machine that parses a stream of JSON objects and strings chunk by chunk. *)
(*                                                                         *)
(* Python's object graph is modelled as a heap: every dict is a cell of    *)
(* `heap`, named by its index, and a reference to a dict is that index.    *)
(* A dict cell keeps its string-valued keys (strs) and its dict-valued     *)
(* keys (objs) apart; a key is in at most one of them.  Text is a sequence  *)
(* of one-character strings.  The buffering StreamingJsonParser3 of         *)
(* parse.py is modelled next to it, in the variable parser3.               *)
(***************************************************************************)
EXTENDS Integers, Sequences, FiniteSets, TLC

VARIABLES
    result,        \* self.result: reference to the root dict
    heap,          \* every dict created so far, by reference
    stack,         \* self.stack: references of the open nested dicts
    state,         \* self.state
    current_key,   \* self.current_key
    strict_mode,   \* self.strict_mode
    raised,        \* the exception the last consume call raised, if any
    chunk,         \* the buffer the last consume call was given
    text,          \* the stream the caller is feeding (document runs)
    doc,           \* the members of the document the stream holds
    docEnd,        \* index in text of the root object's closing brace
    whole,         \* get() of a fresh parser after one consume of the document
    got,           \* what get() returned since the last consume call (0: not called)
    parser3,       \* a StreamingJsonParser3 of parse.py fed the same stream
    pos            \* number of characters of the stream handed to consume

vars == <<result, heap, stack, state, current_key, strict_mode, raised, chunk,
          text, doc, docEnd, whole, got, parser3, pos>>

---------------------------------------------------------------------------
(* Bounds of the model.                                                    *)
MaxInput == 8      \* characters fed in a run over arbitrary characters
MaxChunk == 2      \* longest buffer of one consume call
MaxKeyLen == 1     \* longest key fed
MaxValLen == 2     \* longest string value fed
MaxNodes == 3      \* members of a generated document, over all levels
MaxTokens == 15    \* structure characters fed in a run over those alone

---------------------------------------------------------------------------
(* The parser's constants.                                                 *)
START == 0
EXPECT_KEY_OR_END == 1
IN_KEY == 2
IN_VALUE == 3
EXPECT_COLON == 4
EXPECT_VALUE == 5
EXPECT_COMMA_OR_END == 6

(* The whitespace characters with the tab forgotten.                       *)
WHITESPACE_no_tab == <<" ", "\n", "\r">>

WHITESPACE == <<" ", "\n", "\t", "\r">>

(* EXPECTED_CHARS with the closing brace forgotten after a value.          *)
EXPECTED_CHARS_no_brace ==
    (START :> <<"{">>) @@
    (EXPECT_KEY_OR_END :> <<"\"", "}">>) @@
    (EXPECT_COLON :> <<":">>) @@
    (EXPECT_VALUE :> <<"\"", "{">>) @@
    (EXPECT_COMMA_OR_END :> <<",">>)

EXPECTED_CHARS ==
    (START :> <<"{">>) @@
    (EXPECT_KEY_OR_END :> <<"\"", "}">>) @@
    (EXPECT_COLON :> <<":">>) @@
    (EXPECT_VALUE :> <<"\"", "{">>) @@
    (EXPECT_COMMA_OR_END :> <<",", "}">>)

(* Python's `c in s` for a one-character c and a string s.                 *)
CharIn(c, s) == \E i \in 1..Len(s) : s[i] = c

(* Python's sep.join(s) over the characters of the string s.               *)
RECURSIVE Join(_, _)
Join(sep, s) ==
    IF Len(s) = 0 THEN <<>>
    ELSE IF Len(s) = 1 THEN <<s[1]>>
    ELSE <<s[1], sep>> \o Join(sep, Tail(s))

---------------------------------------------------------------------------
(* Dicts.                                                                  *)
EmptyDict == [strs |-> <<>>, objs |-> <<>>]

Without(f, k) == [x \in (DOMAIN f) \ {k} |-> f[x]]

Keys(d) == DOMAIN d.strs \cup DOMAIN d.objs

(* d[k] = "" *)
SetStr(d, k, s) == [strs |-> (k :> s) @@ d.strs, objs |-> Without(d.objs, k)]

(* d[k] = <the dict with reference r> *)
SetObj(d, k, r) == [strs |-> Without(d.strs, k), objs |-> (k :> r) @@ d.objs]

---------------------------------------------------------------------------
(* Exceptions.  An exception is its class name and its message.            *)
NoError == [exc |-> "", msg |-> <<>>]

Raise(exc, msg) == [exc |-> exc, msg |-> msg]

(* The message naming the characters after the one that was met.           *)
UnexpectedMessage_swapped(c, st) ==
    <<"Got ">> \o Join(" or ", EXPECTED_CHARS[st]) \o <<" but expected ", c>>

(* f'Got {c} but expected {' or '.join(self.EXPECTED_CHARS[self.state])}'  *)
UnexpectedMessage(c, st) ==
    <<"Got ", c, " but expected ">> \o Join(" or ", EXPECTED_CHARS[st])

---------------------------------------------------------------------------
(* The parser object, as a record of its fields.                           *)
NewParser(strict) ==
    [result |-> 1, heap |-> <<EmptyDict>>, stack |-> <<>>, state |-> START,
     current_key |-> <<>>, strict_mode |-> strict]

(* current_obj = self.stack[-1] if self.stack else self.result             *)
CurrentObj(p) == IF Len(p.stack) > 0 THEN p.stack[Len(p.stack)] ELSE p.result

Ok(p) == [parser |-> p, raised |-> NoError]

Pop(s) == SubSeq(s, 1, Len(s) - 1)

(* START building the object in a new root dict.                           *)
case_START_new_root(p, char) ==
    IF char = "{" THEN
        Ok([p EXCEPT !.state = EXPECT_KEY_OR_END,
                     !.heap = Append(p.heap, EmptyDict),
                     !.result = Len(p.heap) + 1])
    ELSE Ok(p)

case_START(p, char) ==
    IF char = "{" THEN Ok([p EXCEPT !.state = EXPECT_KEY_OR_END]) ELSE Ok(p)

(* EXPECT_KEY_OR_END opening a key without emptying current_key.           *)
case_EXPECT_KEY_OR_END_keeps_key(p, char) ==
    IF char = "\"" THEN Ok([p EXCEPT !.state = IN_KEY])
    ELSE IF char = "}" THEN
        Ok([p EXCEPT !.stack = IF Len(p.stack) > 0 THEN Pop(p.stack) ELSE p.stack,
                     !.state = EXPECT_COMMA_OR_END])
    ELSE Ok(p)

(* EXPECT_KEY_OR_END without the pop of the closed object.                 *)
case_EXPECT_KEY_OR_END_no_pop(p, char) ==
    IF char = "\"" THEN Ok([p EXCEPT !.state = IN_KEY, !.current_key = <<>>])
    ELSE IF char = "}" THEN Ok([p EXCEPT !.state = EXPECT_COMMA_OR_END])
    ELSE Ok(p)

case_EXPECT_KEY_OR_END(p, char) ==
    IF char = "\"" THEN Ok([p EXCEPT !.state = IN_KEY, !.current_key = <<>>])
    ELSE IF char = "}" THEN
        Ok([p EXCEPT !.stack = IF Len(p.stack) > 0 THEN Pop(p.stack) ELSE p.stack,
                     !.state = EXPECT_COMMA_OR_END])
    ELSE Ok(p)

(* IN_KEY committing the key as soon as its closing quote is read.         *)
case_IN_KEY_commits(p, char) ==
    IF char = "\"" THEN
        Ok([p EXCEPT !.state = EXPECT_COLON,
                     !.heap[CurrentObj(p)] =
                         SetStr(p.heap[CurrentObj(p)], p.current_key, <<>>)])
    ELSE Ok([p EXCEPT !.current_key = Append(p.current_key, char)])

case_IN_KEY(p, char) ==
    IF char = "\"" THEN Ok([p EXCEPT !.state = EXPECT_COLON])
    ELSE Ok([p EXCEPT !.current_key = Append(p.current_key, char)])

(* IN_VALUE taking a closing brace inside a string for structure.          *)
case_IN_VALUE_drops_brace(p, char) ==
    LET cur == CurrentObj(p)
        k == p.current_key
    IN  IF char = "\"" THEN Ok([p EXCEPT !.state = EXPECT_COMMA_OR_END])
        ELSE IF char = "}" THEN Ok(p)
        ELSE IF k \in DOMAIN p.heap[cur].strs THEN
            Ok([p EXCEPT !.heap[cur].strs[k] = Append(p.heap[cur].strs[k], char)])
        ELSE IF k \in DOMAIN p.heap[cur].objs THEN
            [parser |-> p, raised |-> Raise("TypeError", <<>>)]
        ELSE [parser |-> p, raised |-> Raise("KeyError", k)]

(* IN_VALUE reading a quote after a backslash as an escaped quote.         *)
case_IN_VALUE_escapes(p, char) ==
    LET cur == CurrentObj(p)
        k == p.current_key
        v == IF k \in DOMAIN p.heap[cur].strs THEN p.heap[cur].strs[k] ELSE <<>>
        escaped == Len(v) > 0 /\ v[Len(v)] = "\\"
    IN  IF char = "\"" /\ ~escaped THEN Ok([p EXCEPT !.state = EXPECT_COMMA_OR_END])
        ELSE IF k \in DOMAIN p.heap[cur].strs THEN
            Ok([p EXCEPT !.heap[cur].strs[k] = Append(p.heap[cur].strs[k], char)])
        ELSE IF k \in DOMAIN p.heap[cur].objs THEN
            [parser |-> p, raised |-> Raise("TypeError", <<>>)]
        ELSE [parser |-> p, raised |-> Raise("KeyError", k)]

(* current_obj[self.current_key] += char raises KeyError when the key is   *)
(* missing and TypeError when the value under it is a dict.                *)
case_IN_VALUE(p, char) ==
    LET cur == CurrentObj(p)
        k == p.current_key
    IN  IF char = "\"" THEN Ok([p EXCEPT !.state = EXPECT_COMMA_OR_END])
        ELSE IF k \in DOMAIN p.heap[cur].strs THEN
            Ok([p EXCEPT !.heap[cur].strs[k] = Append(p.heap[cur].strs[k], char)])
        ELSE IF k \in DOMAIN p.heap[cur].objs THEN
            [parser |-> p, raised |-> Raise("TypeError", <<>>)]
        ELSE [parser |-> p, raised |-> Raise("KeyError", k)]

(* EXPECT_COLON committing the key before the type of its value is known.  *)
case_EXPECT_COLON_commits(p, char) ==
    IF char = ":" THEN
        Ok([p EXCEPT !.state = EXPECT_VALUE,
                     !.heap[CurrentObj(p)] =
                         SetStr(p.heap[CurrentObj(p)], p.current_key, <<>>)])
    ELSE Ok(p)

case_EXPECT_COLON(p, char) ==
    IF char = ":" THEN Ok([p EXCEPT !.state = EXPECT_VALUE]) ELSE Ok(p)

(* EXPECT_VALUE entering the string without creating it in the container.  *)
case_EXPECT_VALUE_no_commit(p, char) ==
    LET cur == CurrentObj(p)
        k == p.current_key
        new == Len(p.heap) + 1
    IN  IF char = "\"" THEN Ok([p EXCEPT !.state = IN_VALUE])
        ELSE IF char = "{" THEN
            Ok([p EXCEPT !.heap = Append([p.heap EXCEPT ![cur] = SetObj(p.heap[cur], k, new)],
                                         EmptyDict),
                         !.stack = Append(p.stack, new),
                         !.state = EXPECT_KEY_OR_END])
        ELSE Ok(p)

(* EXPECT_VALUE creating the string in the root, whatever the container.   *)
case_EXPECT_VALUE_in_root(p, char) ==
    LET cur == CurrentObj(p)
        k == p.current_key
        new == Len(p.heap) + 1
    IN  IF char = "\"" THEN
            Ok([p EXCEPT !.state = IN_VALUE,
                         !.heap[p.result] = SetStr(p.heap[p.result], k, <<>>)])
        ELSE IF char = "{" THEN
            Ok([p EXCEPT !.heap = Append([p.heap EXCEPT ![cur] = SetObj(p.heap[cur], k, new)],
                                         EmptyDict),
                         !.stack = Append(p.stack, new),
                         !.state = EXPECT_KEY_OR_END])
        ELSE Ok(p)

(* EXPECT_VALUE storing one new dict in the container and pushing another. *)
case_EXPECT_VALUE_detached(p, char) ==
    LET cur == CurrentObj(p)
        k == p.current_key
        new == Len(p.heap) + 1
    IN  IF char = "\"" THEN
            Ok([p EXCEPT !.state = IN_VALUE,
                         !.heap[cur] = SetStr(p.heap[cur], k, <<>>)])
        ELSE IF char = "{" THEN
            Ok([p EXCEPT !.heap = [p.heap EXCEPT ![cur] = SetObj(p.heap[cur], k, new)]
                                      \o <<EmptyDict, EmptyDict>>,
                         !.stack = Append(p.stack, new + 1),
                         !.state = EXPECT_KEY_OR_END])
        ELSE Ok(p)

case_EXPECT_VALUE(p, char) ==
    LET cur == CurrentObj(p)
        k == p.current_key
        new == Len(p.heap) + 1
    IN  IF char = "\"" THEN
            Ok([p EXCEPT !.state = IN_VALUE,
                         !.heap[cur] = SetStr(p.heap[cur], k, <<>>)])
        ELSE IF char = "{" THEN
            Ok([p EXCEPT !.heap = Append([p.heap EXCEPT ![cur] = SetObj(p.heap[cur], k, new)],
                                         EmptyDict),
                         !.stack = Append(p.stack, new),
                         !.state = EXPECT_KEY_OR_END])
        ELSE Ok(p)

(* EXPECT_COMMA_OR_END popping without looking whether a frame is there.   *)
case_EXPECT_COMMA_OR_END_unguarded(p, char) ==
    IF char = "," THEN Ok([p EXCEPT !.state = EXPECT_KEY_OR_END])
    ELSE IF char = "}" THEN
        IF Len(p.stack) > 0
        THEN Ok([p EXCEPT !.stack = Pop(p.stack), !.state = EXPECT_COMMA_OR_END])
        ELSE [parser |-> p,
              raised |-> Raise("IndexError", <<"pop from empty list">>)]
    ELSE Ok(p)

(* EXPECT_COMMA_OR_END going back to the root at a closing brace.          *)
case_EXPECT_COMMA_OR_END_pops_all(p, char) ==
    IF char = "," THEN Ok([p EXCEPT !.state = EXPECT_KEY_OR_END])
    ELSE IF char = "}" THEN
        Ok([p EXCEPT !.stack = <<>>, !.state = EXPECT_COMMA_OR_END])
    ELSE Ok(p)

(* EXPECT_COMMA_OR_END forgiving a missing comma before the next key.      *)
case_EXPECT_COMMA_OR_END_quote_opens(p, char) ==
    IF char = "," THEN Ok([p EXCEPT !.state = EXPECT_KEY_OR_END])
    ELSE IF char = "}" THEN
        Ok([p EXCEPT !.stack = IF Len(p.stack) > 0 THEN Pop(p.stack) ELSE p.stack,
                     !.state = EXPECT_COMMA_OR_END])
    ELSE IF char = "\"" THEN Ok([p EXCEPT !.state = IN_KEY, !.current_key = <<>>])
    ELSE Ok(p)

case_EXPECT_COMMA_OR_END(p, char) ==
    IF char = "," THEN Ok([p EXCEPT !.state = EXPECT_KEY_OR_END])
    ELSE IF char = "}" THEN
        Ok([p EXCEPT !.stack = IF Len(p.stack) > 0 THEN Pop(p.stack) ELSE p.stack,
                     !.state = EXPECT_COMMA_OR_END])
    ELSE Ok(p)

process_char(p, char) ==
    CASE p.state = START -> case_START(p, char)
      [] p.state = EXPECT_KEY_OR_END -> case_EXPECT_KEY_OR_END(p, char)
      [] p.state = IN_KEY -> case_IN_KEY(p, char)
      [] p.state = IN_VALUE -> case_IN_VALUE(p, char)
      [] p.state = EXPECT_COLON -> case_EXPECT_COLON(p, char)
      [] p.state = EXPECT_VALUE -> case_EXPECT_VALUE(p, char)
      [] p.state = EXPECT_COMMA_OR_END -> case_EXPECT_COMMA_OR_END(p, char)
      [] OTHER -> Ok(p)

(* The loop of consume with strict mode skipping whitespace in every       *)
(* state, keys and string values included.                                 *)
RECURSIVE consume_from_strict_trims(_, _, _)
consume_from_strict_trims(p, buffer, i) ==
    IF i > Len(buffer) THEN Ok(p)
    ELSE LET c == buffer[i] IN
        IF CharIn(c, WHITESPACE) /\ (p.strict_mode \/ p.state \notin {IN_KEY, IN_VALUE})
        THEN consume_from_strict_trims(p, buffer, i + 1)
        ELSE IF p.strict_mode /\ p.state \in DOMAIN EXPECTED_CHARS
                /\ ~CharIn(c, EXPECTED_CHARS[p.state])
        THEN [parser |-> p, raised |-> Raise("ValueError", UnexpectedMessage(c, p.state))]
        ELSE LET r == process_char(p, c) IN
            IF r.raised # NoError THEN r
            ELSE consume_from_strict_trims(r.parser, buffer, i + 1)

(* The loop of consume with the error of an unexpected character raised   *)
(* once the rest of the buffer has been processed.                         *)
RECURSIVE consume_from_defers(_, _, _)
consume_from_defers(p, buffer, i) ==
    IF i > Len(buffer) THEN Ok(p)
    ELSE LET c == buffer[i] IN
        IF CharIn(c, WHITESPACE) /\ p.state \notin {IN_KEY, IN_VALUE}
        THEN consume_from_defers(p, buffer, i + 1)
        ELSE IF p.strict_mode /\ p.state \in DOMAIN EXPECTED_CHARS
                /\ ~CharIn(c, EXPECTED_CHARS[p.state])
        THEN [parser |-> consume_from_defers(p, buffer, i + 1).parser,
              raised |-> Raise("ValueError", UnexpectedMessage(c, p.state))]
        ELSE LET r == process_char(p, c) IN
            IF r.raised # NoError THEN r ELSE consume_from_defers(r.parser, buffer, i + 1)

(* The loop of consume from the character at index i on.  An exception     *)
(* leaves the loop: the fields keep what the earlier characters did.       *)
RECURSIVE consume_from(_, _, _)
consume_from(p, buffer, i) ==
    IF i > Len(buffer) THEN Ok(p)
    ELSE LET c == buffer[i] IN
        IF CharIn(c, WHITESPACE) /\ p.state \notin {IN_KEY, IN_VALUE}
        THEN consume_from(p, buffer, i + 1)
        ELSE IF p.strict_mode /\ p.state \in DOMAIN EXPECTED_CHARS
                /\ ~CharIn(c, EXPECTED_CHARS[p.state])
        THEN [parser |-> p, raised |-> Raise("ValueError", UnexpectedMessage(c, p.state))]
        ELSE LET r == process_char(p, c) IN
            IF r.raised # NoError THEN r ELSE consume_from(r.parser, buffer, i + 1)

(* consume as a parser that restarts the key on every call would be.       *)
consume_forgets_key(p, buffer) ==
    consume_from([p EXCEPT !.current_key = <<>>], buffer, 1)

consume(p, buffer) == consume_from(p, buffer, 1)

(* get(): the dict that self.result refers to, as the value Python's ==     *)
(* compares: string values and, recursively, the dicts under dict values.  *)
RECURSIVE Deref(_, _)
Deref(h, r) ==
    [strs |-> h[r].strs,
     objs |-> [k \in DOMAIN h[r].objs |-> Deref(h, h[r].objs[k])]]

get(p) == Deref(p.heap, p.result)

(* get() finishing the pending key, as a flushing query would.             *)
get_call_flushes(p) ==
    [parser |-> [p EXCEPT !.current_key = <<>>], value |-> p.result]

(* The call get(): the parser it leaves and the reference it returns.      *)
get_call(p) == [parser |-> p, value |-> p.result]

(* parse_json(s, strict_mode): the parser it builds, the value it returns  *)
(* (0: none) and the exception it raises.  consume returns None, so the    *)
(* .get() chained on its result is an attribute lookup on None.            *)
parse_json(s, strict) ==
    LET r == consume(NewParser(strict), s) IN
    IF r.raised # NoError
    THEN [parser |-> r.parser, value |-> 0, raised |-> r.raised]
    ELSE [parser |-> r.parser, value |-> 0,
          raised |-> Raise("AttributeError",
                           <<"'NoneType' object has no attribute 'get'">>)]

---------------------------------------------------------------------------
(* StreamingJsonParser3 of parse.py, which keeps the unread input in a     *)
(* buffer.  Its object is a record of its fields with its own heap of      *)
(* dicts; root is 0 for None; pos counts the characters of the buffer      *)
(* already read, so the character at Python's buf[pos] is buffer[pos + 1]. *)
(* A context of its stack has its container, its state and, once set, its  *)
(* current_key and partial_string (deleted entries are set again before    *)
(* they are read, and are kept empty here).                                *)
NewParser3 == [buffer |-> <<>>, pos |-> 0, stack |-> <<>>, root |-> 0, heap |-> <<>>]

NewContext(r) ==
    [container |-> r, state |-> "start", current_key |-> <<>>, partial_string |-> <<>>]

RECURSIVE skip_whitespace(_, _)
skip_whitespace(buf, at) ==
    IF at < Len(buf) /\ buf[at + 1] \in {" ", "\t", "\r", "\n"}
    THEN skip_whitespace(buf, at + 1)
    ELSE at

(* The loop of _parse_string.  When the buffer ends before the closing     *)
(* quote the position stays at the end of the buffer.                      *)
RECURSIVE parse_string_from(_, _, _)
parse_string_from(buf, at, res) ==
    IF at < Len(buf) THEN
        IF buf[at + 1] = "\"" THEN [pos |-> at + 1, string |-> res, complete |-> TRUE]
        ELSE parse_string_from(buf, at + 1, Append(res, buf[at + 1]))
    ELSE [pos |-> at, string |-> <<>>, complete |-> FALSE]

parse_string(buf, at) == parse_string_from(buf, at + 1, <<>>)

Top(q) == q.stack[Len(q.stack)]

(* self.stack.pop() at a closing brace, the parent going on after a value. *)
close_object(q) ==
    LET s == Pop(q.stack) IN
    [q EXCEPT !.pos = q.pos + 1,
              !.stack = IF Len(s) > 0 THEN [s EXCEPT ![Len(s)].state = "comma"] ELSE s]

(* The inner loop of the state "value_string".                             *)
RECURSIVE read_value(_)
read_value(q) ==
    LET ctx == Top(q) IN
    IF q.pos < Len(q.buffer) /\ q.buffer[q.pos + 1] # "\"" THEN
        LET partial == Append(ctx.partial_string, q.buffer[q.pos + 1]) IN
        read_value([q EXCEPT !.stack[Len(q.stack)].partial_string = partial,
                             !.heap[ctx.container] =
                                 SetStr(q.heap[ctx.container], ctx.current_key, partial),
                             !.pos = q.pos + 1])
    ELSE q

Continue(q) == [parser |-> q, again |-> TRUE]

Break(q) == [parser |-> q, again |-> FALSE]

(* One pass of the while loop of consume with a context on the stack.      *)
in_object(q) ==
    LET ctx == Top(q)
        top == Len(q.stack)
        ch == q.buffer[q.pos + 1]
    IN  IF ctx.state \in {"start", "key"} THEN
            IF ch = "}" THEN Continue(close_object(q))
            ELSE IF ch = "," THEN
                Continue([q EXCEPT !.pos = q.pos + 1, !.stack[top].state = "key"])
            ELSE IF ch = "\"" THEN
                LET r == parse_string(q.buffer, q.pos) IN
                IF ~r.complete THEN Break([q EXCEPT !.pos = r.pos])
                ELSE Continue([q EXCEPT !.pos = r.pos,
                                        !.stack[top].current_key = r.string,
                                        !.stack[top].state = "colon"])
            ELSE Break(q)
        ELSE IF ctx.state = "colon" THEN
            IF ch = ":" THEN
                Continue([q EXCEPT !.pos = q.pos + 1, !.stack[top].state = "value"])
            ELSE Break(q)
        ELSE IF ctx.state = "value" THEN
            IF ch = "\"" THEN
                Continue([q EXCEPT !.heap[ctx.container] =
                                       SetStr(q.heap[ctx.container], ctx.current_key, <<>>),
                                   !.stack[top].partial_string = <<>>,
                                   !.pos = q.pos + 1,
                                   !.stack[top].state = "value_string"])
            ELSE IF ch = "{" THEN
                LET new == Len(q.heap) + 1 IN
                Continue([q EXCEPT !.heap = Append([q.heap EXCEPT ![ctx.container] =
                                                SetObj(q.heap[ctx.container], ctx.current_key, new)],
                                                EmptyDict),
                                   !.pos = q.pos + 1,
                                   !.stack = Append(q.stack, NewContext(new))])
            ELSE Break(q)
        ELSE IF ctx.state = "value_string" THEN
            LET r == read_value(q) IN
            IF r.pos >= Len(r.buffer) THEN Break(r)
            ELSE Continue([r EXCEPT !.pos = r.pos + 1,
                                    !.stack[top].partial_string = <<>>,
                                    !.stack[top].current_key = <<>>,
                                    !.stack[top].state = "comma"])
        ELSE IF ctx.state = "comma" THEN
            IF ch = "," THEN
                Continue([q EXCEPT !.pos = q.pos + 1, !.stack[top].state = "key"])
            ELSE IF ch = "}" THEN Continue(close_object(q))
            ELSE Break(q)
        ELSE Break(q)

(* One pass of the while loop of consume.                                  *)
iteration(q) ==
    LET w == [q EXCEPT !.pos = skip_whitespace(q.buffer, q.pos)] IN
    IF w.pos >= Len(w.buffer) THEN Break(w)
    ELSE IF Len(w.stack) = 0 THEN
        IF w.buffer[w.pos + 1] = "{" THEN
            LET new == Len(w.heap) + 1 IN
            Continue([w EXCEPT !.pos = w.pos + 1,
                               !.heap = Append(w.heap, EmptyDict),
                               !.stack = Append(w.stack, NewContext(new)),
                               !.root = new])
        ELSE Break(w)
    ELSE in_object(w)

RECURSIVE consume_loop(_)
consume_loop(q) ==
    IF q.pos >= Len(q.buffer) THEN q
    ELSE LET r == iteration(q) IN
         IF r.again THEN consume_loop(r.parser) ELSE r.parser

(* StreamingJsonParser3.consume(chunk), with the cleanup of the buffer.    *)
consume3(q, buf) ==
    LET r == consume_loop([q EXCEPT !.buffer = q.buffer \o buf]) IN
    IF r.pos # 0
    THEN [r EXCEPT !.buffer = SubSeq(r.buffer, r.pos + 1, Len(r.buffer)), !.pos = 0]
    ELSE r

NoDocument == [none |-> TRUE]

(* StreamingJsonParser3.get(), as the value Python's == compares.          *)
get3(q) == IF q.root = 0 THEN NoDocument ELSE Deref(q.heap, q.root)

---------------------------------------------------------------------------
(* The parser of the current state, and the state after a consume call.    *)
Self ==
    [result |-> result, heap |-> heap, stack |-> stack, state |-> state,
     current_key |-> current_key, strict_mode |-> strict_mode]

Document == get(Self)

Becomes(r) ==
    /\ result' = r.parser.result
    /\ heap' = r.parser.heap
    /\ stack' = r.parser.stack
    /\ state' = r.parser.state
    /\ current_key' = r.parser.current_key
    /\ strict_mode' = r.parser.strict_mode
    /\ raised' = r.raised

(* Characters a caller feeds in the runs over arbitrary characters.        *)
Alphabet == {"{", "}", "\"", ":", ",", " ", "a"}

RECURSIVE SeqsUpTo(_, _)
SeqsUpTo(S, n) ==
    IF n = 0 THEN {<<>>}
    ELSE LET shorter == SeqsUpTo(S, n - 1)
         IN  shorter \cup {Append(s, c) : s \in shorter, c \in S}

Chunks == SeqsUpTo(Alphabet, MaxChunk)

(* The inputs fed stay within the bounds on keys and values.               *)
WithinBounds(p) ==
    /\ Len(p.current_key) <= MaxKeyLen
    /\ \A r \in 1..Len(p.heap) : \A k \in DOMAIN p.heap[r].strs :
           Len(p.heap[r].strs[k]) <= MaxValLen

Init ==
    /\ strict_mode \in BOOLEAN
    /\ result = 1
    /\ heap = <<EmptyDict>>
    /\ stack = <<>>
    /\ state = START
    /\ current_key = <<>>
    /\ raised = NoError
    /\ chunk = <<>>
    /\ text = <<>>
    /\ doc = <<>>
    /\ docEnd = 0
    /\ whole = get(NewParser(strict_mode))
    /\ got = 0
    /\ parser3 = NewParser3
    /\ pos = 0

(* parser.consume(buffer) for an arbitrary buffer.                         *)
Consume(buffer) ==
    /\ pos + Len(buffer) <= MaxInput
    /\ LET r == consume(Self, buffer) IN
        /\ WithinBounds(r.parser)
        /\ Becomes(r)
    /\ chunk' = buffer
    /\ got' = 0
    /\ pos' = pos + Len(buffer)
    /\ UNCHANGED <<text, doc, docEnd, whole, parser3>>

Next == \E buffer \in Chunks : Consume(buffer)

Spec == Init /\ [][Next]_vars

(* A strict parser fed one character per call for as long as no call       *)
(* raises; text keeps the characters fed.                                  *)
InitStrict == Init /\ strict_mode

ConsumeRecorded(c) ==
    /\ raised = NoError
    /\ pos + 1 <= MaxInput
    /\ LET r == consume(Self, <<c>>) IN
        /\ WithinBounds(r.parser)
        /\ Becomes(r)
    /\ chunk' = <<c>>
    /\ text' = Append(text, c)
    /\ got' = 0
    /\ pos' = pos + 1
    /\ UNCHANGED <<doc, docEnd, whole, parser3>>

NextStrict == \E c \in Alphabet : ConsumeRecorded(c)

SpecStrict == InitStrict /\ [][NextStrict]_vars

(* The characters that carry the structure of a document.  With those     *)
(* alone every key is the empty string, so every key after the first of an *)
(* object repeats one.                                                     *)
Tokens == {"{", "}", "\"", ":", ","}

ConsumeToken(c) ==
    /\ pos + 1 <= MaxTokens
    /\ LET r == consume(Self, <<c>>) IN
        /\ WithinBounds(r.parser)
        /\ Becomes(r)
    /\ chunk' = <<c>>
    /\ got' = 0
    /\ pos' = pos + 1
    /\ UNCHANGED <<text, doc, docEnd, whole, parser3>>

NextTokens == \E c \in Tokens : ConsumeToken(c)

(* Runs that feed structure characters, in any order, one per call.        *)
SpecTokens == Init /\ [][NextTokens]_vars

(* parser.get(), between two consume calls.                                *)
Get ==
    /\ LET r == get_call(Self) IN
        /\ result' = r.parser.result
        /\ heap' = r.parser.heap
        /\ stack' = r.parser.stack
        /\ state' = r.parser.state
        /\ current_key' = r.parser.current_key
        /\ strict_mode' = r.parser.strict_mode
        /\ got' = r.value
    /\ UNCHANGED <<raised, chunk, text, doc, docEnd, whole, parser3, pos>>

(* Characters fed one per call: the alphabet, the other whitespace         *)
(* characters and the backslash.                                           *)
Characters == Alphabet \cup {"\t", "\r", "\n", "\\"}

NextGet == (\E c \in Characters : Consume(<<c>>)) \/ Get

(* Runs that feed arbitrary characters one per call, with get() called at  *)
(* any point between the calls.                                            *)
SpecGet == Init /\ [][NextGet]_vars

---------------------------------------------------------------------------
(* Documents of the grammar of the module docstring.  A document is the    *)
(* sequence of the members of its root object; a member is its key k and   *)
(* either a string s (t = "s") or the members o of an object (t = "o").    *)
DocKeys == {<<"a">>, <<"a", "b">>}
DocVals == {<<>>, <<"b", "}">>}

StrMember(k, s) == [k |-> k, t |-> "s", s |-> s, o |-> <<>>]
ObjMember(k, o) == [k |-> k, t |-> "o", s |-> <<>>, o |-> o]

MemberKeys(f) == {f[i].k : i \in 1..Len(f)}

(* Member lists of at most n members over all levels, keys unique in each  *)
(* object.                                                                 *)
RECURSIVE Members(_)
Members(n) ==
    IF n = 0 THEN {<<>>}
    ELSE LET firsts ==
                 {<<StrMember(k, s), n - 1>> : k \in DocKeys, s \in DocVals}
                 \cup UNION {{<<ObjMember(k, o), n - 1 - a>> : k \in DocKeys, o \in Members(a)}
                             : a \in 0..(n - 1)}
         IN  {<<>>} \cup
             UNION {{<<m[1]>> \o rest : rest \in {r \in Members(m[2]) : m[1].k \notin MemberKeys(r)}}
                    : m \in firsts}

Docs == Members(MaxNodes)

(* Whitespace the grammar allows around the tokens.                        *)
Gaps == {<<>>, <<" ">>}

RECURSIVE ObjectText(_, _), MemberListText(_, _), MemberText(_, _)
MemberText(m, w) ==
    <<"\"">> \o m.k \o <<"\"">> \o w \o <<":">> \o w \o
    (IF m.t = "s" THEN <<"\"">> \o m.s \o <<"\"">> ELSE ObjectText(m.o, w))

MemberListText(f, w) ==
    IF Len(f) = 0 THEN <<>>
    ELSE IF Len(f) = 1 THEN MemberText(f[1], w)
    ELSE MemberText(f[1], w) \o w \o <<",">> \o w \o MemberListText(Tail(f), w)

ObjectText(f, w) == <<"{">> \o w \o MemberListText(f, w) \o w \o <<"}">>

(* The mapping a member list denotes.                                      *)
RECURSIVE Denote(_)
Denote(f) ==
    LET at(k) == CHOOSE i \in 1..Len(f) : f[i].k = k
    IN  [strs |-> [k \in {f[i].k : i \in {j \in 1..Len(f) : f[j].t = "s"}} |-> f[at(k)].s],
         objs |-> [k \in {f[i].k : i \in {j \in 1..Len(f) : f[j].t = "o"}} |-> Denote(f[at(k)].o)]]

(* What a caller may send after the root object.                           *)
Trailers ==
    {<<"}", "a">>,
     <<",", "\"", "c", "\"", ":", "\"", "d">>}

InitDoc ==
    /\ strict_mode \in BOOLEAN
    /\ result = 1
    /\ heap = <<EmptyDict>>
    /\ stack = <<>>
    /\ state = START
    /\ current_key = <<>>
    /\ raised = NoError
    /\ chunk = <<>>
    /\ doc \in Docs
    /\ \E w \in Gaps, t \in Trailers :
        /\ text = w \o ObjectText(doc, w) \o w \o t
        /\ docEnd = Len(w) + Len(ObjectText(doc, w))
        /\ whole = get(consume(NewParser(strict_mode), w \o ObjectText(doc, w)).parser)
    /\ got = 0
    /\ parser3 = NewParser3
    /\ pos = 0

(* parser.consume(buffer) for the next n characters of the stream.         *)
ConsumeText(n) ==
    /\ pos + n <= Len(text)
    /\ Becomes(consume(Self, SubSeq(text, pos + 1, pos + n)))
    /\ chunk' = SubSeq(text, pos + 1, pos + n)
    /\ got' = 0
    /\ pos' = pos + n
    /\ UNCHANGED <<text, doc, docEnd, whole, parser3>>

NextDoc == \E n \in 0..MaxChunk : ConsumeText(n)

SpecDoc == InitDoc /\ [][NextDoc]_vars

(* parse_json(text, strict_mode), called once on the whole stream.         *)
ParseJson ==
    /\ pos = 0
    /\ LET r == parse_json(text, strict_mode) IN
        /\ Becomes([parser |-> r.parser, raised |-> r.raised])
        /\ got' = r.value
    /\ chunk' = text
    /\ pos' = Len(text)
    /\ UNCHANGED <<text, doc, docEnd, whole, parser3>>

NextParse == ParseJson

SpecParse == InitDoc /\ [][NextParse]_vars

(* The document handed to a StreamingJsonParser3 in two consume calls: its *)
(* first n characters, then the rest.                                      *)
Consume3(n) ==
    /\ pos < docEnd
    /\ pos + n <= docEnd
    /\ pos > 0 => pos + n = docEnd
    /\ parser3' = consume3(parser3, SubSeq(text, pos + 1, pos + n))
    /\ chunk' = SubSeq(text, pos + 1, pos + n)
    /\ pos' = pos + n
    /\ UNCHANGED <<result, heap, stack, state, current_key, strict_mode, raised,
                   text, doc, docEnd, whole, got>>

NextSplit == \E n \in 0..Len(text) : Consume3(n)

SpecSplit == InitDoc /\ [][NextSplit]_vars

---------------------------------------------------------------------------
(* Properties of the document runs (SpecDoc).                              *)

(* The document of the stream, without what follows its closing brace.     *)
D == SubSeq(text, 1, docEnd)

(* get() of a fresh parser after the single call consume(D).               *)
WholeResult == whole

IsPrefix(s, t) == Len(s) <= Len(t) /\ SubSeq(t, 1, Len(s)) = s

(* a is a partial representation of b.                                     *)
RECURSIVE Partial(_, _)
Partial(a, b) ==
    /\ DOMAIN a.strs \subseteq DOMAIN b.strs
    /\ DOMAIN a.objs \subseteq DOMAIN b.objs
    /\ \A k \in DOMAIN a.strs : IsPrefix(a.strs[k], b.strs[k])
    /\ \A k \in DOMAIN a.objs : Partial(a.objs[k], b.objs[k])

(* C1: whatever chunks the document D was fed in, once all of D has been   *)
(* consumed get() equals get() of a fresh parser after one consume(D).     *)
C1_ChunkInvariance == pos = docEnd => Document = WholeResult

(* C1's case: D consumed in several calls, the last one a proper chunk,    *)
(* giving a result with a nested object.                                   *)
C1_Witness ==
    /\ pos = docEnd
    /\ Len(chunk) > 0
    /\ Len(chunk) < docEnd
    /\ DOMAIN Document.objs # {}
    /\ DOMAIN Document.strs # {}

(* C4: after the whole document a lenient parser's get() is the mapping    *)
(* the document denotes.                                                   *)
C4_FullDocument == (pos = docEnd /\ ~strict_mode) => Document = Denote(doc)

(* C4's case: a document with a closed nested object followed by another   *)
(* member has been consumed whole.                                         *)
C4_Witness ==
    /\ pos = docEnd
    /\ ~strict_mode
    /\ Len(doc) = 2
    /\ doc[1].t = "o"
    /\ Len(doc[1].o) = 1
    /\ Document = Denote(doc)

(* C5: get() after any prefix of the document is a partial representation  *)
(* of get() after the whole document.                                      *)
C5_PartialResult == pos <= docEnd => Partial(Document, WholeResult)

(* C5's case: a proper prefix ending inside a string value of a nested     *)
(* object, the value partly visible.                                       *)
C5_Witness ==
    /\ pos < docEnd
    /\ state = IN_VALUE
    /\ Len(stack) > 0
    /\ Document # WholeResult
    /\ \E k \in DOMAIN Document.objs : \E j \in DOMAIN Document.objs[k].strs :
           /\ Len(Document.objs[k].strs[j]) = 1
           /\ Len(WholeResult.objs[k].strs[j]) = 2

(* Index of the last double quote among the first n characters of t, or 0. *)
LastQuote(t, n) ==
    IF \E i \in 1..n : t[i] = "\"" THEN CHOOSE i \in 1..n :
        t[i] = "\"" /\ \A j \in (i + 1)..n : t[j] # "\"" ELSE 0

(* Index of the first double quote of t after index n, or Len(t) + 1.      *)
NextQuote(t, n) ==
    IF \E i \in (n + 1)..Len(t) : t[i] = "\"" THEN CHOOSE i \in (n + 1)..Len(t) :
        t[i] = "\"" /\ \A j \in (n + 1)..(i - 1) : t[j] # "\"" ELSE Len(t) + 1

(* The key the stream is at: inside it (IN_KEY) or just after it.          *)
PendingKey ==
    LET q == LastQuote(text, pos)
    IN  IF state = IN_KEY THEN SubSeq(text, q + 1, NextQuote(text, pos) - 1)
        ELSE SubSeq(text, LastQuote(text, q - 1) + 1, q - 1)

(* The keys of a get() result at every level, without the string values.   *)
RECURSIVE Shape(_)
Shape(d) ==
    [strs |-> DOMAIN d.strs, objs |-> [k \in DOMAIN d.objs |-> Shape(d.objs[k])]]

(* While a key is read, and until its value opens, it is not in the        *)
(* container it will belong to.                                            *)
KeyInvisible ==
    state \in {IN_KEY, EXPECT_COLON, EXPECT_VALUE} =>
        /\ PendingKey \notin Keys(heap[CurrentObj(Self)])
        /\ state # IN_KEY => current_key = PendingKey

(* A call consuming one character changes the keys of get()'s result       *)
(* exactly when the character opens a value in EXPECT_VALUE, and then it   *)
(* adds the pending key with an empty string or an empty object.           *)
KeyAppears ==
    (Len(chunk') = 1 /\ pos' = pos + 1) =>
        LET c == chunk'[1]
            cur == CurrentObj(Self)
        IN  IF state = EXPECT_VALUE /\ c \in {"\"", "{"}
            THEN /\ Keys(heap'[cur]) = Keys(heap[cur]) \cup {current_key}
                 /\ current_key \notin Keys(heap[cur])
                 /\ c = "\"" => /\ current_key \in DOMAIN heap'[cur].strs
                                /\ heap'[cur].strs[current_key] = <<>>
                 /\ c = "{" => /\ current_key \in DOMAIN heap'[cur].objs
                               /\ heap'[heap'[cur].objs[current_key]] = EmptyDict
                 /\ \A r \in (DOMAIN heap) \ {cur} : heap'[r] = heap[r]
                 /\ Shape(Document') # Shape(Document)
            ELSE Shape(Document') = Shape(Document)

(* C2: key atomicity.  A key is in get()'s result only once the opening    *)
(* quote or brace of its value has been consumed: never while the parser   *)
(* is in IN_KEY, EXPECT_COLON or EXPECT_VALUE for it, and from the very    *)
(* step that consumes that opening character on.                           *)
C2_KeyAtomicity == [](KeyInvisible) /\ [][KeyAppears]_vars

(* C2's case: a one-character call has just consumed the opening quote of  *)
(* a value inside a nested object, and the key is there with "".           *)
C2_Witness ==
    /\ state = IN_VALUE
    /\ chunk = <<"\"">>
    /\ Len(stack) > 0
    /\ current_key \in DOMAIN heap[CurrentObj(Self)].strs
    /\ heap[CurrentObj(Self)].strs[current_key] = <<>>

(* The dicts of a get() result: the result and every dict nested in it.    *)
RECURSIVE SubDicts(_)
SubDicts(d) == {d} \cup UNION {SubDicts(d.objs[k]) : k \in DOMAIN d.objs}

(* The key of the string value the stream is inside: the text between the  *)
(* two quotes before the value's opening quote.                            *)
ValueKey ==
    LET q1 == LastQuote(text, LastQuote(text, pos) - 1)
    IN  SubSeq(text, LastQuote(text, q1 - 1) + 1, q1 - 1)

(* C3: string incrementality.  In IN_VALUE, get() shows under the value's  *)
(* key, in the current container, exactly the characters consumed since    *)
(* the value's opening quote, the last one included.                       *)
C3_StringIncremental ==
    state = IN_VALUE =>
        LET cur == CurrentObj(Self) IN
        /\ ValueKey \in DOMAIN heap[cur].strs
        /\ heap[cur].strs[ValueKey] = SubSeq(text, LastQuote(text, pos) + 1, pos)
        /\ Deref(heap, cur) \in SubDicts(Document)

(* C3's case: a one-character call has just added the second character of  *)
(* a string value of a nested object.                                      *)
C3_Witness ==
    /\ state = IN_VALUE
    /\ Len(stack) > 0
    /\ Len(chunk) = 1
    /\ chunk[1] = "}"
    /\ heap[CurrentObj(Self)].strs[current_key] = <<"b", "}">>

---------------------------------------------------------------------------
(* Properties of the runs over arbitrary characters (Spec).                *)

(* C6: in lenient mode no consume call raises, whatever the characters.    *)
C6_LenientNeverFails == ~strict_mode => raised = NoError

(* C6's case: a lenient parser fed filler has updated a string value in    *)
(* place.                                                                  *)
C6_Witness ==
    /\ ~strict_mode
    /\ state = IN_VALUE
    /\ pos = MaxInput
    /\ current_key \in DOMAIN heap[CurrentObj(Self)].strs
    /\ Len(heap[CurrentObj(Self)].strs[current_key]) > 0

(* The expected characters of the five states that expect some.            *)
ExpectedSet ==
    (START :> {"{"}) @@
    (EXPECT_KEY_OR_END :> {"\"", "}"}) @@
    (EXPECT_COLON :> {":"}) @@
    (EXPECT_VALUE :> {"\"", "{"}) @@
    (EXPECT_COMMA_OR_END :> {",", "}"})

(* c is whitespace that state st skips.                                    *)
Skipped(st, c) == c \in {" ", "\n", "\t", "\r"} /\ st \notin {IN_KEY, IN_VALUE}

(* c is a character strict mode fails on in state st.                      *)
Unexpected(st, c) ==
    /\ ~Skipped(st, c)
    /\ st \in {START, EXPECT_KEY_OR_END, EXPECT_COLON, EXPECT_VALUE, EXPECT_COMMA_OR_END}
    /\ c \notin ExpectedSet[st]

(* Index of the first character of buffer, from i on, that is unexpected   *)
(* in the state the characters before it lead to; 0 when there is none.    *)
RECURSIVE FirstUnexpected(_, _, _)
FirstUnexpected(p, buffer, i) ==
    IF i > Len(buffer) THEN 0
    ELSE IF Unexpected(p.state, buffer[i]) THEN i
    ELSE FirstUnexpected(consume(p, <<buffer[i]>>).parser, buffer, i + 1)

StrictFailure ==
    strict_mode =>
        LET i == FirstUnexpected(Self, chunk', 1) IN
        /\ (raised' # NoError) <=> (i # 0)
        /\ i # 0 =>
            /\ raised'.exc = "ValueError"
            /\ state' \notin {IN_KEY, IN_VALUE}
            /\ Self' = consume(Self, SubSeq(chunk', 1, i - 1)).parser

(* C7: a strict consume call fails exactly when its buffer holds a         *)
(* character that is not skipped whitespace and is not expected in the     *)
(* state it is met in, that state being one of the five with an expected   *)
(* set; it fails at the first such character, never in IN_KEY or IN_VALUE. *)
C7_StrictFailsExactly == [][StrictFailure]_vars

(* C7's case: a strict call whose first character closed a key and whose   *)
(* second character failed in EXPECT_COLON.                                *)
C7_Witness ==
    /\ strict_mode
    /\ raised.exc = "ValueError"
    /\ chunk = <<"\"", "a">>
    /\ state = EXPECT_COLON

(* The names of a state: the specification's, the source's, its number.    *)
StateNames(st) ==
    CASE st = START -> {"Start", "START", "0"}
      [] st = EXPECT_KEY_OR_END -> {"ExpectKeyOrEnd", "EXPECT_KEY_OR_END", "1"}
      [] st = IN_KEY -> {"InKey", "IN_KEY", "2"}
      [] st = IN_VALUE -> {"InStringValue", "IN_VALUE", "3"}
      [] st = EXPECT_COLON -> {"ExpectColon", "EXPECT_COLON", "4"}
      [] st = EXPECT_VALUE -> {"ExpectValue", "EXPECT_VALUE", "5"}
      [] st = EXPECT_COMMA_OR_END -> {"ExpectCommaOrEnd", "EXPECT_COMMA_OR_END", "6"}

ExpectedListing(st) ==
    CASE st = START -> <<"{">>
      [] st = EXPECT_KEY_OR_END -> <<"\"", " or ", "}">>
      [] st = EXPECT_COLON -> <<":">>
      [] st = EXPECT_VALUE -> <<"\"", " or ", "{">>
      [] st = EXPECT_COMMA_OR_END -> <<",", " or ", "}">>

ErrorReport ==
    (strict_mode /\ raised' # NoError) =>
        LET i == FirstUnexpected(Self, chunk', 1) IN
        /\ i # 0
        /\ raised'.exc = "ValueError"
        /\ raised'.msg = <<"Got ", chunk'[i], " but expected ">> \o ExpectedListing(state')
        /\ \A st \in DOMAIN ExpectedSet :
               ExpectedSet[st] = {raised'.msg[j] : j \in 4..Len(raised'.msg)} \ {" or "}
                   <=> st = state'

---------------------------------------------------------------------------
(* Closed objects, in the document runs (SpecDoc).                         *)

(* The dicts whose closing brace has been consumed: the nested dicts no    *)
(* longer on the stack, and the root once the stream is past docEnd.       *)
Closed ==
    {r \in DOMAIN heap : r # result /\ \A i \in 1..Len(stack) : stack[i] # r}
    \cup (IF pos >= docEnd THEN {result} ELSE {})

(* C9: once the closing brace of an object has been consumed, no later     *)
(* consume call changes that object or an object nested in it.             *)
C9_StructuralClosure == [][\A r \in Closed : Deref(heap', r) = Deref(heap, r)]_vars

(* C10: once the root's closing brace has been consumed in lenient mode,   *)
(* get() returns the same result after every further consume call.         *)
C10_TrailingIgnored == [][(pos >= docEnd /\ ~strict_mode) => Document' = Document]_vars

---------------------------------------------------------------------------
(* Properties of get(), in the runs that call it (SpecGet).                *)

GetUnchanged ==
    got' # 0 =>
        /\ state' = state
        /\ stack' = stack
        /\ current_key' = current_key
        /\ heap' = heap
        /\ result' = result
        /\ Deref(heap', got') = Document
        /\ got # 0 => Deref(heap', got') = Deref(heap, got)
        /\ pos = 0 => Deref(heap', got') = [strs |-> <<>>, objs |-> <<>>]

(* C11: a get() call leaves the parse state, the stack, the key            *)
(* accumulator and the Document as they were and returns the Document; a   *)
(* second call without a consume in between returns the same; before any   *)
(* input it returns the empty object.                                      *)
C11_GetSideEffectFree == [][GetUnchanged]_vars

(* C11's case: get() has returned in the middle of a key of a nested       *)
(* object.                                                                 *)
C11_Witness ==
    /\ got # 0
    /\ state = IN_KEY
    /\ Len(current_key) > 0
    /\ Len(stack) > 0
    /\ Deref(heap, got) = Document

(* C12: self.result is the dict created at construction, in either mode    *)
(* and after any input, what get() returns is that dict, and the reference *)
(* held before a step shows the Document after it.                         *)
RootKept ==
    /\ result = NewParser(strict_mode).result
    /\ result \in DOMAIN heap
    /\ got # 0 => got = result

C12_RootNeverReplaced ==
    /\ []RootKept
    /\ [][Deref(heap', result) = Document']_vars

(* C12's case: get() has returned the root after input that filled it with *)
(* a nested object.                                                        *)
C12_Witness ==
    /\ got = result
    /\ DOMAIN Document.objs # {}
    /\ pos = MaxInput

(* One consume call of the single character c.                             *)
Fed(c) == pos' = pos + 1 /\ chunk' = <<c>>

(* The heap after c is appended to the string under the current key.       *)
Extended(c) ==
    [heap EXCEPT ![CurrentObj(Self)].strs[current_key] = Append(@, c)]

Literal(c) ==
    /\ state = IN_KEY /\ c # "\"" =>
        /\ current_key' = Append(current_key, c)
        /\ state' = IN_KEY
        /\ heap' = heap
        /\ stack' = stack
        /\ raised' = NoError
    /\ state = IN_KEY /\ c = "\"" =>
        /\ state' = EXPECT_COLON
        /\ current_key' = current_key
        /\ heap' = heap
        /\ stack' = stack
        /\ raised' = NoError
    /\ state = IN_VALUE /\ c # "\"" =>
        /\ heap' = Extended(c)
        /\ state' = IN_VALUE
        /\ current_key' = current_key
        /\ stack' = stack
        /\ raised' = NoError
    /\ state = IN_VALUE /\ c = "\"" =>
        /\ state' = EXPECT_COMMA_OR_END
        /\ heap' = heap
        /\ stack' = stack
        /\ raised' = NoError

(* C13: inside a key or a string value every character but the double      *)
(* quote, the backslash, the braces, the colon, the comma and whitespace   *)
(* included, is appended as it is to the key or the value, and a double    *)
(* quote ends the key or value whatever precedes it.                       *)
C13_NoEscapes == [][\A c \in Characters : Fed(c) => Literal(c)]_vars

(* C13's case: a key and a value that end in a backslash have both been    *)
(* ended by the quote after it.                                            *)
C13_Witness ==
    /\ state = EXPECT_COMMA_OR_END
    /\ chunk = <<"\"">>
    /\ <<"\\">> \in DOMAIN Document.strs
    /\ Document.strs[<<"\\">>] = <<"\\">>

Skips(c) ==
    /\ state \notin {IN_KEY, IN_VALUE} =>
        /\ state' = state
        /\ stack' = stack
        /\ current_key' = current_key
        /\ heap' = heap
        /\ Document' = Document
        /\ raised' = NoError
    /\ state = IN_KEY =>
        /\ current_key' = Append(current_key, c)
        /\ state' = IN_KEY
        /\ raised' = NoError
    /\ state = IN_VALUE =>
        /\ heap' = Extended(c)
        /\ state' = IN_VALUE
        /\ raised' = NoError

(* C14: in both modes a space, tab, carriage return or newline consumed    *)
(* outside a key and a string value changes nothing of the parser and      *)
(* raises nothing; inside a key or a string value it is appended.          *)
C14_WhitespaceSkipped == [][\A c \in {" ", "\t", "\r", "\n"} : Fed(c) => Skips(c)]_vars

(* C14's case: a strict parser has skipped a tab between a key and its     *)
(* colon.                                                                  *)
C14_Witness ==
    /\ strict_mode
    /\ chunk = <<"\t">>
    /\ state = EXPECT_COLON
    /\ raised = NoError

---------------------------------------------------------------------------
(* The frame stack, in the document runs (SpecDoc).                        *)

(* The first n characters of t read as JSON text: whether they end inside  *)
(* a string, and how many objects they open and do not close.              *)
RECURSIVE Scan(_, _)
Scan(t, n) ==
    IF n = 0 THEN [str |-> FALSE, depth |-> 0]
    ELSE LET s == Scan(t, n - 1)
             c == t[n]
         IN  IF c = "\"" THEN [s EXCEPT !.str = ~s.str]
             ELSE IF s.str THEN s
             ELSE IF c = "{" THEN [s EXCEPT !.depth = s.depth + 1]
             ELSE IF c = "}" THEN [s EXCEPT !.depth = s.depth - 1]
             ELSE s

(* The nesting depth after the characters consumed so far, the root        *)
(* counted from its opening to its closing brace.                          *)
NestingDepth == Scan(text, IF pos <= docEnd THEN pos ELSE docEnd).depth

(* C15: in every reachable state the depth of the frame stack is the       *)
(* number of objects opened and not yet closed, the root included.         *)
C15_StackDepthIsNesting == Len(stack) = NestingDepth

---------------------------------------------------------------------------
(* Single characters in the states that expect some (SpecGet).             *)

Filler(c) ==
    /\ ~strict_mode
    /\ Unexpected(state, c)

Ignored ==
    /\ state' = state
    /\ stack' = stack
    /\ current_key' = current_key
    /\ heap' = heap
    /\ Document' = Document
    /\ raised' = NoError

(* C16: in lenient mode a character consumed in START, EXPECT_KEY_OR_END,  *)
(* EXPECT_COLON, EXPECT_VALUE or EXPECT_COMMA_OR_END that is not expected  *)
(* there leaves the state, the stack, the key and the Document unchanged.  *)
C16_LenientFiller == [][\A c \in Characters : Fed(c) /\ Filler(c) => Ignored]_vars

(* C16's case: a lenient parser has consumed a letter where the value of   *)
(* the key "a" was expected.                                               *)
C16_Witness ==
    /\ ~strict_mode
    /\ got = 0
    /\ chunk = <<"a">>
    /\ state = EXPECT_VALUE
    /\ current_key = <<"a">>

---------------------------------------------------------------------------
(* The parser a strict failure leaves, in the runs over arbitrary          *)
(* characters (Spec).                                                      *)

(* The failed call stopped at index i: the characters before i were        *)
(* consumed without an error, the parser is the one they leave, and the    *)
(* character at i is the one the error is about.                           *)
StoppedAt(i) ==
    LET before == consume(Self, SubSeq(chunk', 1, i - 1)) IN
    /\ before.raised = NoError
    /\ Self' = before.parser
    /\ Unexpected(before.parser.state, chunk'[i])
    /\ raised' = Raise("ValueError", UnexpectedMessage(chunk'[i], state'))

FailureState ==
    /\ strict_mode /\ raised' # NoError => \E i \in 1..Len(chunk') : StoppedAt(i)
    /\ strict_mode /\ raised # NoError =>
        /\ Self' = consume(Self, chunk').parser
        /\ raised' = consume(Self, chunk').raised

(* C17: a strict consume call that fails at index i leaves the state, the  *)
(* stack, the key and the Document that the characters before i give; the  *)
(* character at i and those after it are not applied, and the next consume *)
(* call goes on from that state.                                           *)
C17_StateAtFailure == [][FailureState]_vars

(* C17's case: a strict call has consumed the colon after a key and failed *)
(* on the letter after it.                                                 *)
C17_Witness ==
    /\ strict_mode
    /\ chunk = <<":", "a">>
    /\ state = EXPECT_VALUE
    /\ raised.exc = "ValueError"

---------------------------------------------------------------------------
(* The grammar of the module, in the strict runs that keep the characters  *)
(* fed (SpecStrict).                                                       *)

(* What the BNF expects after a closing brace that leaves d objects open.  *)
Closing(d) ==
    [at |-> IF d = 0 THEN "end" ELSE "after", depth |-> d]

(* The position in the BNF after the character c, from the position g:     *)
(* "json" before the root object, "members" after an opening brace,        *)
(* "member" after a comma, "key" and "string" inside a key and a string    *)
(* value, "colon" after a key, "value" after a colon, "after" after a      *)
(* value, "end" after the root object, "no" when no document goes on so.   *)
Derive(g, c) ==
    LET no == [at |-> "no", depth |-> 0] IN
    IF g.at = "no" THEN no
    ELSE IF g.at = "key" THEN (IF c = "\"" THEN [g EXCEPT !.at = "colon"] ELSE g)
    ELSE IF g.at = "string" THEN (IF c = "\"" THEN [g EXCEPT !.at = "after"] ELSE g)
    ELSE IF c \in {" ", "\n", "\t", "\r"} THEN g
    ELSE IF g.at = "json" THEN
        (IF c = "{" THEN [at |-> "members", depth |-> 1] ELSE no)
    ELSE IF g.at = "members" THEN
        (IF c = "\"" THEN [g EXCEPT !.at = "key"]
         ELSE IF c = "}" THEN Closing(g.depth - 1) ELSE no)
    ELSE IF g.at = "member" THEN
        (IF c = "\"" THEN [g EXCEPT !.at = "key"] ELSE no)
    ELSE IF g.at = "colon" THEN
        (IF c = ":" THEN [g EXCEPT !.at = "value"] ELSE no)
    ELSE IF g.at = "value" THEN
        (IF c = "\"" THEN [g EXCEPT !.at = "string"]
         ELSE IF c = "{" THEN [at |-> "members", depth |-> g.depth + 1] ELSE no)
    ELSE IF g.at = "after" THEN
        (IF c = "," THEN [g EXCEPT !.at = "member"]
         ELSE IF c = "}" THEN Closing(g.depth - 1) ELSE no)
    ELSE no

RECURSIVE Derivation(_, _)
Derivation(t, n) ==
    IF n = 0 THEN [at |-> "json", depth |-> 0]
    ELSE Derive(Derivation(t, n - 1), t[n])

(* t is a prefix of a document of the BNF, whitespace allowed around the   *)
(* tokens.                                                                 *)
DocumentPrefix(t) == Derivation(t, Len(t)).at # "no"

(* C18: the character sequences a fresh strict parser consumes without     *)
(* raising are the prefixes of the documents of the BNF.                   *)
C18_StrictGrammar == (raised = NoError) <=> DocumentPrefix(text)

---------------------------------------------------------------------------
(* Closing braces, character by character, in the document runs (SpecDoc). *)

(* The object that holds the one on top of the stack.                      *)
Parent == IF Len(stack) >= 2 THEN stack[Len(stack) - 1] ELSE result

ReturnsToParent(c) ==
    /\ c = "}" /\ state \in {EXPECT_KEY_OR_END, EXPECT_COMMA_OR_END} /\ Len(stack) > 0 =>
        /\ stack' = Pop(stack)
        /\ state' = EXPECT_COMMA_OR_END
        /\ heap' = heap
        /\ raised' = NoError
        /\ CurrentObj(Self') = Parent
    /\ \A r \in DOMAIN heap : heap'[r] # heap[r] => r = CurrentObj(Self)
    /\ stack' # stack => c = "}" \/ (c = "{" /\ state = EXPECT_VALUE)

(* C19: a closing brace consumed in EXPECT_KEY_OR_END or                   *)
(* EXPECT_COMMA_OR_END with a non-empty stack pops one frame and leaves    *)
(* EXPECT_COMMA_OR_END with the parent of the closed object as the current *)
(* object; the current object changes only at a '{' value or a '}', and a  *)
(* key is only ever inserted into the current object.                      *)
C19_ReturnToParent ==
    [][Len(chunk') = 1 /\ pos' = pos + 1 => ReturnsToParent(chunk'[1])]_vars

(* C19's case: inside a nested object, after an object nested in it was    *)
(* closed, a key has just been inserted into it.                           *)
C19_Witness ==
    /\ Len(stack) = 1
    /\ state = IN_VALUE
    /\ chunk = <<"\"">>
    /\ DOMAIN heap[stack[1]].objs # {}
    /\ current_key \in DOMAIN heap[stack[1]].strs

BelowRoot ==
    /\ stack = <<>>
    /\ stack' = <<>>
    /\ heap' = heap
    /\ Document' = Document
    /\ raised' = NoError

(* C20: a closing brace consumed once the root object is closed pops       *)
(* nothing from the empty stack, raises no error and leaves the Document   *)
(* unchanged.                                                              *)
C20_NoCloseBelowRoot == [][pos >= docEnd /\ Fed("}") => BelowRoot]_vars

(* C20's case: a strict parser has consumed a closing brace after the one  *)
(* of a root object that holds a key.                                      *)
C20_Witness ==
    /\ strict_mode
    /\ pos > docEnd
    /\ chunk = <<"}">>
    /\ raised = NoError
    /\ Keys(heap[result]) # {}

---------------------------------------------------------------------------
(* The state at the end of a document, in the document runs (SpecDoc).     *)

Finished == state = EXPECT_COMMA_OR_END /\ stack = <<>>

(* C21: once the whole document is consumed the parser is in               *)
(* EXPECT_COMMA_OR_END with an empty stack, and it is not in that state    *)
(* with that stack before the root's closing brace is consumed.            *)
C21_FinishedOnlyAtEnd ==
    /\ pos = docEnd => Finished
    /\ pos < docEnd => ~Finished

---------------------------------------------------------------------------
(* parse_json on the streams of the document runs (SpecParse).             *)

(* C22: parse_json(s, strict_mode) returns the Document a fresh parser     *)
(* reports from get() after consume(s), and raises the error of consume(s) *)
(* when that call fails.                                                   *)
C22_ParseJsonIsConsumeGet ==
    pos = Len(text) =>
        LET r == consume(NewParser(strict_mode), text) IN
        /\ raised = r.raised
        /\ r.raised = NoError =>
            /\ got # 0
            /\ Deref(heap, got) = get(r.parser)

---------------------------------------------------------------------------
(* The frame stack and the Document, in the runs over structure characters *)
(* (SpecTokens).                                                           *)

(* The dicts stored as values of the dict r.                               *)
Children(r) == {heap[r].objs[k] : k \in DOMAIN heap[r].objs}

(* C23: the stack is a path in the Document: its bottom frame is a dict    *)
(* stored as a value of the root and every other frame is stored as a      *)
(* value of the frame beneath it.                                          *)
C23_StackIsPath ==
    \A i \in 1..Len(stack) :
        stack[i] \in Children(IF i = 1 THEN result ELSE stack[i - 1])

(* C23's case: a lenient parser two objects deep under a key of the root   *)
(* that held another object before, which the repeated key detached.       *)
C23_Witness ==
    /\ ~strict_mode
    /\ Len(stack) = 2
    /\ \E r \in DOMAIN heap : r # result /\ \A q \in DOMAIN heap : r \notin Children(q)

---------------------------------------------------------------------------
(* The two modes on the same input, in the strict runs that keep the       *)
(* characters fed (SpecStrict).                                            *)

(* A lenient parser fed the characters the strict one was fed.             *)
Lenient == consume(NewParser(FALSE), text).parser

(* C24: as long as the strict parser has not raised, a lenient parser fed  *)
(* the same characters has the same state, stack, key and Document.        *)
C24_ModesAgree ==
    raised = NoError =>
        /\ Lenient.state = state
        /\ Lenient.stack = stack
        /\ Lenient.current_key = current_key
        /\ Lenient.heap = heap
        /\ get(Lenient) = Document

(* C24's case: the strict parser has accepted a space as the key of a      *)
(* nested object, and the lenient one holds the same key.                  *)
C24_Witness ==
    /\ strict_mode
    /\ raised = NoError
    /\ Len(stack) = 1
    /\ state = IN_KEY
    /\ current_key = <<" ">>
    /\ Lenient.current_key = <<" ">>

(* C25: whenever the state is IN_VALUE, current_key is a key of the current *)
(* object and the value under it is a string, and the append of IN_VALUE   *)
(* has raised neither KeyError nor TypeError.                              *)
C25_StringTarget ==
    /\ state = IN_VALUE => current_key \in DOMAIN heap[CurrentObj(Self)].strs
    /\ raised.exc \notin {"KeyError", "TypeError"}

(* C25's case: a lenient parser is appending to a string of the root,      *)
(* stored under the key that held a nested object before it was closed.    *)
C25_Witness ==
    /\ ~strict_mode
    /\ state = IN_VALUE
    /\ stack = <<>>
    /\ Len(heap) > 1
    /\ DOMAIN heap[result].objs = {}
    /\ current_key \in DOMAIN heap[result].strs
    /\ Len(heap[result].strs[current_key]) > 0

---------------------------------------------------------------------------
(* The way to a committed key, step by step in the runs over structure     *)
(* characters (SpecTokens).                                                *)

(* The keys the step adds to the dict r.                                   *)
NewKeys(r) == Keys(heap'[r]) \ Keys(heap[r])

KeyPath ==
    /\ state # START => state' # START
    /\ state' = EXPECT_VALUE /\ state # EXPECT_VALUE => state = EXPECT_COLON
    /\ state' = EXPECT_COLON /\ state # EXPECT_COLON => state = IN_KEY
    /\ state' = IN_KEY /\ state # IN_KEY =>
        /\ state = EXPECT_KEY_OR_END
        /\ current_key' = <<>>
        /\ stack' = stack
    /\ current_key' # current_key => state' = IN_KEY
    /\ state \in {IN_KEY, EXPECT_COLON} => stack' = stack /\ heap' = heap
    /\ \A r \in DOMAIN heap :
        NewKeys(r) # {} =>
            /\ state = EXPECT_VALUE
            /\ r = CurrentObj(Self)
            /\ NewKeys(r) = {current_key}

(* C26: START is never entered again once left; EXPECT_VALUE is entered    *)
(* from EXPECT_COLON only, EXPECT_COLON from IN_KEY only and IN_KEY from    *)
(* EXPECT_KEY_OR_END only, with current_key emptied; current_key changes   *)
(* only inside IN_KEY, the container stays the same on the way, and the    *)
(* key a step inserts is current_key, inserted in EXPECT_VALUE into the    *)
(* current object.                                                         *)
C26_KeyPath == [][KeyPath]_vars

(* C26's case: the empty key has been inserted into the root after an      *)
(* object stored under a longer key of the root was closed.                *)
C26_Witness ==
    /\ state = IN_VALUE
    /\ stack = <<>>
    /\ current_key = <<>>
    /\ <<>> \in DOMAIN heap[result].strs
    /\ \E k \in DOMAIN heap[result].objs : k # <<>>

---------------------------------------------------------------------------
(* StreamingJsonParser3 on a document fed in two consume calls (SpecSplit). *)

(* The number of characters the first of the two calls was given.          *)
SplitAt == pos - Len(chunk)

(* C27: when the first call ends inside a key, get() after the second call *)
(* is get() of a parser given the document in one call.                    *)
C27_SplitKey ==
    pos = docEnd /\ Derivation(text, SplitAt).at = "key" =>
        get3(parser3) = get3(consume3(NewParser3, D))

===========================================================================
